---- MODULE Spec2Model ----
(***************************************************************************)
(* Model of the V4L2 backend of the eye-rs capture HAL:                    *)
(*   - device handle   src/src/hal/v4l2/device.rs                          *)
(*   - stream handle   src/eye-hal/src/platform/v4l2/stream.rs             *)
(*   - descriptor      src/eye-hal/src/stream.rs                           *)
(* The platform capture subsystem (the v4l device behind `inner`) is the   *)
(* environment: what it reports is drawn from bounded sets, and every call *)
(* the code guards with `?` may fail.                                      *)
(***************************************************************************)
EXTENDS Integers, Sequences, FiniteSets, TLC

VARIABLES
    plat,          \* what the platform reports: formats, frame sizes, frame intervals
    platControls,  \* the controls the platform reports
    ctrlValue,     \* platform side: live value of each control id
    streamsRes,    \* outcome of the last query_streams call
    preferredRes,  \* outcome of the last preferred_stream call
    controlsRes,   \* outcome of the last query_controls call
    setRes,        \* outcome of the last set_control call
    devFormat,     \* platform side: active capture format
    devParams,     \* platform side: active timing fraction
    mapped,        \* platform side: number of ring slots currently mapped
    live,          \* the Stream handles that have not been dropped
    startRes,      \* outcome of the last start_stream call
    nextRes        \* outcome of the last next() call

vars == << plat, platControls, ctrlValue, streamsRes, preferredRes, controlsRes,
           setRes, devFormat, devParams, mapped, live, startRes, nextRes >>

-----------------------------------------------------------------------------
(* Bounds of the model *)

MaxFormats == 2
MaxSizes == 2
MaxIntervals == 2
MaxControls == 2
MaxStreams == 2
RingSlots == 2
PlatformSlots == 4
SlotLen == 2

NanosPerSec == 1000000000
NanoDigits == 9

Range(s) == { s[i] : i \in 1..Len(s) }

SeqsUpTo(S, n) == UNION { [1..k -> S] : k \in 0..n }

-----------------------------------------------------------------------------
(* The platform's reports *)

\* fourcc codes the platform may report; "XXXX" stands for a code the HAL
\* does not know
Codes == { "YUYV", "XXXX" }

SizeEntries ==
    { [ kind |-> "Discrete", width |-> 640, height |-> 480 ],
      [ kind |-> "Discrete", width |-> 1280, height |-> 720 ],
      [ kind |-> "Stepwise", width |-> 0, height |-> 0 ] }

IntervalEntries ==
    { [ kind |-> "Discrete", numerator |-> 1, denominator |-> 30 ],
      [ kind |-> "Discrete", numerator |-> 2, denominator |-> 15 ],
      [ kind |-> "Stepwise", numerator |-> 0, denominator |-> 0 ] }

Platforms ==
    [ formats : SeqsUpTo(Codes, MaxFormats),
      sizes : SeqsUpTo(SizeEntries, MaxSizes),
      intervals : SeqsUpTo(IntervalEntries, MaxIntervals) ]

-----------------------------------------------------------------------------
(* Conversions *)

\* PixelFormat::from(&fourcc.repr): known codes map to their tag, any other
\* code to the Unknown tag
PixelFormatFrom(code) == IF code = "YUYV" THEN "Yuyv" ELSE "Unknown"

\* pixfmt.try_into(): the platform code of a tag; the Unknown tag has none
FourccTryFrom(tag) ==
    IF tag = "Yuyv" THEN [ ok |-> TRUE, fourcc |-> "YUYV" ]
    ELSE [ ok |-> FALSE, fourcc |-> "" ]

\* the first k decimal digits of r/den (r < den), truncated
RECURSIVE FracDigits(_, _, _, _)
FracDigits(r, den, k, acc) ==
    IF k = 0 THEN acc
    ELSE FracDigits((r * 10) % den, den, k - 1, acc * 10 + ((r * 10) \div den))

\* Duration::from_secs_f64(numerator as f64 / denominator as f64): whole
\* seconds and nanoseconds
DurationFromFraction(num, den) ==
    [ secs |-> num \div den,
      nanos |-> FracDigits(num % den, den, NanoDigits, 0) ]

\* (1.0 / interval.as_secs_f32()) as u32, for a positive interval: the cast
\* truncates toward zero
FpsOf(interval) ==
    IF interval.secs = 0 THEN NanosPerSec \div interval.nanos
    ELSE IF interval.secs = 1 /\ interval.nanos = 0 THEN 1
    ELSE 0

-----------------------------------------------------------------------------
(* query_streams *)

\* where a platform enumeration may fail during one query_streams call
FailPoints ==
    { << "none", 0, 0 >>, << "formats", 0, 0 >> }
      \cup { << "sizes", i, 0 >> : i \in 1..MaxFormats }
      \cup { << "intervals", i, j >> : i \in 1..MaxFormats, j \in 1..MaxSizes }

Descriptor(code, size, fraction) ==
    [ width |-> size.width,
      height |-> size.height,
      pixfmt |-> PixelFormatFrom(code),
      interval |-> DurationFromFraction(fraction.numerator, fraction.denominator) ]

ErrStreams == [ ok |-> FALSE, streams |-> << >> ]

\* IntervalLoop that stops at the first interval that is not discrete
RECURSIVE IntervalLoopStops(_, _, _, _, _)
IntervalLoopStops(p, code, size, k, acc) ==
    IF k > Len(p.intervals) THEN acc
    ELSE IF p.intervals[k].kind = "Discrete"
         THEN IntervalLoopStops(p, code, size, k + 1,
                                Append(acc, Descriptor(code, size, p.intervals[k])))
         ELSE acc

\* the inner loop: frame intervals of one (format, size), from index k on
RECURSIVE IntervalLoop(_, _, _, _, _)
IntervalLoop(p, code, size, k, acc) ==
    IF k > Len(p.intervals) THEN acc
    ELSE IF p.intervals[k].kind = "Discrete"
         THEN IntervalLoop(p, code, size, k + 1,
                           Append(acc, Descriptor(code, size, p.intervals[k])))
         ELSE IntervalLoop(p, code, size, k + 1, acc)

\* the middle loop: frame sizes of format i, from index j on
RECURSIVE SizeLoop(_, _, _, _, _)
SizeLoop(p, fail, i, j, acc) ==
    IF j > Len(p.sizes) THEN [ ok |-> TRUE, streams |-> acc ]
    ELSE IF p.sizes[j].kind = "Discrete"
         THEN IF fail = << "intervals", i, j >> THEN ErrStreams
              ELSE SizeLoop(p, fail, i, j + 1,
                            IntervalLoop(p, p.formats[i], p.sizes[j], 1, acc))
         ELSE SizeLoop(p, fail, i, j + 1, acc)

\* the outer loop: formats from index i on
RECURSIVE FormatLoop(_, _, _, _)
FormatLoop(p, fail, i, acc) ==
    IF i > Len(p.formats) THEN [ ok |-> TRUE, streams |-> acc ]
    ELSE IF fail = << "sizes", i, 0 >> THEN ErrStreams
    ELSE LET r == SizeLoop(p, fail, i, 1, acc)
         IN  IF r.ok THEN FormatLoop(p, fail, i + 1, r.streams) ELSE ErrStreams

query_streams(p, fail) ==
    IF fail = << "formats", 0, 0 >> THEN ErrStreams
    ELSE FormatLoop(p, fail, 1, << >>)

-----------------------------------------------------------------------------
(* preferred_stream *)

\* the comparator "pick the wider of the two"
PickWider(a, b) == IF b.width > a.width THEN b ELSE a

NoDesc == [ width |-> 0, height |-> 0, pixfmt |-> "Unknown",
            interval |-> [ secs |-> 0, nanos |-> 0 ] ]

None == [ some |-> FALSE, desc |-> NoDesc, calls |-> 0 ]

Some(d, n) == [ some |-> TRUE, desc |-> d, calls |-> n ]

\* for i in 0..streams.len() - 2 { preferred = Some(f(streams[i], streams[i + 1])) }
\* with i counted from 0 as in the source; hi is the exclusive upper end
RECURSIVE PairLoop(_, _, _, _)
PairLoop(streams, i, hi, preferred) ==
    IF i >= hi THEN preferred
    ELSE PairLoop(streams, i + 1, hi,
                  Some(PickWider(streams[i + 1], streams[i + 2]), preferred.calls + 1))

\* PickPreferred without the branch for a list of one descriptor
PickPreferredNoSingle(streams) ==
    IF Len(streams) >= 1 THEN PairLoop(streams, 0, Len(streams) - 1, None)
    ELSE None

\* the branch on streams.len() that picks the preferred descriptor
PickPreferred(streams) ==
    IF Len(streams) = 1 THEN Some(streams[1], 0)
    ELSE IF Len(streams) > 1 THEN PairLoop(streams, 0, Len(streams) - 2, None)
    ELSE None

preferred_stream(p, fail) ==
    LET q == query_streams(p, fail)
    IN  IF ~q.ok
        THEN [ status |-> "PlatformIoError", desc |-> NoDesc, calls |-> 0 ]
        ELSE LET preferred == PickPreferred(q.streams)
             IN  IF preferred.some
                 THEN [ status |-> "Ok", desc |-> preferred.desc,
                        calls |-> preferred.calls ]
                 ELSE [ status |-> "NoStreamsAvailable", desc |-> NoDesc,
                        calls |-> preferred.calls ]

-----------------------------------------------------------------------------
(* query_controls *)

\* v4l::control::Type values the platform may report; CtrlClass is one of the
\* types the match leaves to the `_` arm
ControlTypes == { "Integer", "Boolean", "Menu", "String", "CtrlClass" }

PlatFlagSets == SUBSET { "DISABLED", "READ_ONLY" }

\* the control the platform reports at position i, with its type and flags
PlatControl(i, typ, flags) ==
    [ id |-> 100 + i,
      name |-> << "control", i >>,
      typ |-> typ,
      flags |-> flags,
      minimum |-> 0 - 2, maximum |-> 10, step |-> 2, default |-> 4,
      items |-> IF typ = "Menu"
                THEN << [ kind |-> "Name", name |-> "auto" ],
                        [ kind |-> "Value", value |-> 7 ] >>
                ELSE << >> ]

PlatControlLists ==
    UNION { { [ i \in 1..k |-> PlatControl(i, t[i], f[i]) ] :
                t \in [1..k -> ControlTypes], f \in [1..k -> PlatFlagSets] } :
            k \in 0..MaxControls }

\* a DISABLED test that compares the whole flag word
IsDisabledExact(flags) == flags = { "DISABLED" }

\* control.flags & Flags::DISABLED == Flags::DISABLED
IsDisabled(flags) == { "DISABLED" } \subseteq flags

MenuItems(items) ==
    [ k \in 1..Len(items) |->
        IF items[k].kind = "Name"
        THEN [ kind |-> "String", string |-> items[k].name ]
        ELSE [ kind |-> "Integer", integer |-> items[k].value ] ]

\* the match on control.typ
Representation(c) ==
    CASE c.typ \in { "Integer", "Integer64" } ->
             [ kind |-> "Integer", range |-> << c.minimum, c.maximum >>,
               step |-> c.step, default |-> c.default ]
      [] c.typ = "Boolean" -> [ kind |-> "Boolean" ]
      [] c.typ = "Menu" -> [ kind |-> "Menu", items |-> MenuItems(c.items) ]
      [] c.typ = "Button" -> [ kind |-> "Button" ]
      [] c.typ = "String" -> [ kind |-> "String" ]
      [] c.typ = "Bitmask" -> [ kind |-> "Bitmask" ]
      [] OTHER -> [ kind |-> "Unknown" ]

\* the four independent flag tests
ControlFlags(flags) ==
    flags \cap { "READ_ONLY", "WRITE_ONLY", "GRABBED", "INACTIVE" }

RECURSIVE ControlLoop(_, _, _)
ControlLoop(pcs, i, acc) ==
    IF i > Len(pcs) THEN acc
    ELSE IF IsDisabled(pcs[i].flags) THEN ControlLoop(pcs, i + 1, acc)
    ELSE ControlLoop(pcs, i + 1,
                     Append(acc, [ id |-> pcs[i].id,
                                   name |-> pcs[i].name,
                                   repr |-> Representation(pcs[i]),
                                   flags |-> ControlFlags(pcs[i].flags) ]))

query_controls(pcs, fail) ==
    IF fail THEN [ ok |-> FALSE, controls |-> << >> ]
    ELSE [ ok |-> TRUE, controls |-> ControlLoop(pcs, 1, << >>) ]

-----------------------------------------------------------------------------
(* set_control *)

\* control::Value variants with the payloads the calls below use
Values ==
    { [ variant |-> "Integer", int |-> 5 ],
      [ variant |-> "Boolean", int |-> 1 ],
      [ variant |-> "MenuItem", int |-> 0 ],
      [ variant |-> "String", int |-> 0 ] }

\* inner.set_control(id, Control::Value(v)): the platform accepts a write to a
\* control it has that is neither disabled nor read-only, unless the write
\* fails (platOk = FALSE)
PlatformAccepts(pcs, id, platOk) ==
    /\ platOk
    /\ \E i \in 1..Len(pcs) :
           pcs[i].id = id /\ pcs[i].flags \cap { "DISABLED", "READ_ONLY" } = {}

\* the match on val: the outcome, and whether the platform was written to
set_control(pcs, id, val, platOk) ==
    IF val.variant \in { "Integer", "Boolean" }
    THEN [ wrote |-> TRUE,
           status |-> IF PlatformAccepts(pcs, id, platOk) THEN "Ok"
                      ELSE "PlatformIoError" ]
    ELSE [ wrote |-> FALSE, status |-> "UnsupportedControlType" ]

-----------------------------------------------------------------------------
(* start_stream *)

\* the platform calls of one start_stream, in call order; one of them may fail
StartFailPoints == { "none", "set_format", "params", "set_params", "mmap" }

NoFormat == [ set |-> FALSE, width |-> 0, height |-> 0, fourcc |-> "" ]

NoParams == [ set |-> FALSE, numerator |-> 0, denominator |-> 0 ]

\* what one start_stream call does up to its first failure: the format and the
\* timing it pushes to the device, and whether it maps a ring; `room` tells
\* whether the platform has slots left for another ring
start_stream(desc, fail, room) ==
    LET fourcc == FourccTryFrom(desc.pixfmt)
        format == [ set |-> TRUE, width |-> desc.width, height |-> desc.height,
                    fourcc |-> fourcc.fourcc ]
        fps == FpsOf(desc.interval)
        params == [ set |-> TRUE, numerator |-> 1, denominator |-> fps ]
    IN  IF ~fourcc.ok
        THEN [ status |-> "UnsupportedFormat", format |-> NoFormat,
               params |-> NoParams, opened |-> FALSE ]
        ELSE IF fail = "set_format"
        THEN [ status |-> "PlatformIoError", format |-> NoFormat,
               params |-> NoParams, opened |-> FALSE ]
        ELSE IF fail \in { "params", "set_params" }
        THEN [ status |-> "PlatformIoError", format |-> format,
               params |-> NoParams, opened |-> FALSE ]
        ELSE IF fail = "mmap" \/ ~room
        THEN [ status |-> "PlatformIoError", format |-> format,
               params |-> params, opened |-> FALSE ]
        ELSE [ status |-> "Ok", format |-> format, params |-> params,
               opened |-> TRUE ]

-----------------------------------------------------------------------------
(* Stream handle *)

\* the bytes of ring slot `slot`
SlotData(slot) == [ k \in 1..SlotLen |-> slot * 10 + k ]

\* what the platform's dequeue can return
NoBuffer == [ slot |-> 0, bytesused |-> 0 ]

DequeueErr == [ kind |-> "Err" ] @@ NoBuffer

DequeueNone == [ kind |-> "None" ] @@ NoBuffer

DequeueSome(slot, bytesused) ==
    [ kind |-> "Some", slot |-> slot, bytesused |-> bytesused ]

\* next() that hands out the whole slot
NextWholeSlot(deq) ==
    CASE deq.kind = "Err" -> [ out |-> "error", bytes |-> << >> ]
      [] deq.kind = "None" -> [ out |-> "absent", bytes |-> << >> ]
      [] deq.kind = "Some" -> [ out |-> "frame", bytes |-> SlotData(deq.slot) ]

\* Stream::next: the match on the platform's dequeue result
next(deq) ==
    CASE deq.kind = "Err" -> [ out |-> "error", bytes |-> << >> ]
      [] deq.kind = "None" -> [ out |-> "absent", bytes |-> << >> ]
      [] deq.kind = "Some" ->
             [ out |-> "frame",
               bytes |-> SubSeq(SlotData(deq.slot), 1, deq.bytesused) ]

\* a Stream handle right after Handle::new: ring mapped, no frame captured
NewStream == [ ready |-> FALSE, slot |-> 0, bytesused |-> 0, missed |-> FALSE ]

\* the slots that stay mapped when a Stream is dropped without its ring
\* being released
MappedAfterLeak(n) == n

\* the slots that stay mapped when a Stream is dropped: Handle owns its
\* MmapStream, so the ring goes with it
MappedAfterDrop(n) == n - RingSlots

-----------------------------------------------------------------------------
(* Results of calls that have not been made yet *)

NoStreamsRes == [ called |-> FALSE, fail |-> << "none", 0, 0 >>, ok |-> FALSE,
                  streams |-> << >> ]

NoPreferredRes == [ called |-> FALSE, fail |-> << "none", 0, 0 >>,
                    status |-> "PlatformIoError", desc |-> NoDesc, calls |-> 0 ]

NoControlsRes == [ called |-> FALSE, ok |-> FALSE, controls |-> << >> ]

NoSetRes == [ called |-> FALSE, id |-> 0, val |-> [ variant |-> "Integer", int |-> 0 ],
              platOk |-> FALSE, wrote |-> FALSE, status |-> "PlatformIoError" ]

NoStartRes == [ called |-> FALSE, desc |-> NoDesc, fail |-> "none",
                status |-> "PlatformIoError" ]

NoNextRes == [ called |-> FALSE, id |-> 0, deq |-> DequeueNone, out |-> "absent",
               bytes |-> << >> ]

EmptyPlatform == [ formats |-> << >>, sizes |-> << >>, intervals |-> << >> ]

-----------------------------------------------------------------------------
(* Enumeration: query_streams and preferred_stream on any platform *)

InitEnum ==
    /\ plat \in Platforms
    /\ platControls = << >>
    /\ ctrlValue = << >>
    /\ streamsRes = NoStreamsRes
    /\ preferredRes = NoPreferredRes
    /\ controlsRes = NoControlsRes
    /\ setRes = NoSetRes
    /\ devFormat = NoFormat
    /\ devParams = NoParams
    /\ mapped = 0
    /\ live = << >>
    /\ startRes = NoStartRes
    /\ nextRes = NoNextRes

\* one query_streams call; the enumeration calls leave the device as it is,
\* so each behaviour makes one of them on the platform drawn in InitEnum
QueryStreams ==
    \E fail \in FailPoints :
        /\ ~streamsRes.called /\ ~preferredRes.called
        /\ streamsRes' = [ called |-> TRUE, fail |-> fail ] @@ query_streams(plat, fail)
        /\ UNCHANGED << plat, platControls, ctrlValue, preferredRes, controlsRes,
                        setRes, devFormat, devParams, mapped, live, startRes,
                        nextRes >>

\* one preferred_stream call with the comparator PickWider; query_streams
\* inside it may fail at the first call of each platform enumeration
PreferredStream ==
    \E fail \in { << "none", 0, 0 >>, << "formats", 0, 0 >>, << "sizes", 1, 0 >>,
                   << "intervals", 1, 1 >> } :
        /\ ~streamsRes.called /\ ~preferredRes.called
        /\ preferredRes' =
               [ called |-> TRUE, fail |-> fail ] @@ preferred_stream(plat, fail)
        /\ UNCHANGED << plat, platControls, ctrlValue, streamsRes, controlsRes,
                        setRes, devFormat, devParams, mapped, live, startRes,
                        nextRes >>

NextEnum == QueryStreams \/ PreferredStream

SpecEnum == InitEnum /\ [][NextEnum]_vars

-----------------------------------------------------------------------------
(* Controls: query_controls and set_control on any set of platform controls *)

InitControls ==
    /\ plat = EmptyPlatform
    /\ platControls \in PlatControlLists
    /\ ctrlValue = [ i \in 1..Len(platControls) |-> platControls[i].default ]
    /\ streamsRes = NoStreamsRes
    /\ preferredRes = NoPreferredRes
    /\ controlsRes = NoControlsRes
    /\ setRes = NoSetRes
    /\ devFormat = NoFormat
    /\ devParams = NoParams
    /\ mapped = 0
    /\ live = << >>
    /\ startRes = NoStartRes
    /\ nextRes = NoNextRes

\* one query_controls call; the platform's own query may fail
QueryControls ==
    \E fail \in BOOLEAN :
        /\ ~controlsRes.called /\ ~setRes.called
        /\ controlsRes' = [ called |-> TRUE ] @@ query_controls(platControls, fail)
        /\ UNCHANGED << plat, platControls, ctrlValue, streamsRes, preferredRes,
                        setRes, devFormat, devParams, mapped, live, startRes,
                        nextRes >>

\* one set_control call per behaviour, on a control the platform has or on
\* an id it lacks
SetControl ==
    \E id \in { 100 + i : i \in 0..Len(platControls) }, val \in Values,
       platOk \in BOOLEAN :
        LET r == set_control(platControls, id, val, platOk)
        IN  /\ ~setRes.called
            /\ setRes' = [ called |-> TRUE, id |-> id, val |-> val,
                           platOk |-> platOk ] @@ r
            /\ ctrlValue' = IF r.status = "Ok"
                            THEN [ ctrlValue EXCEPT ![id - 100] = val.int ]
                            ELSE ctrlValue
            /\ UNCHANGED << plat, platControls, streamsRes, preferredRes,
                            controlsRes, devFormat, devParams, mapped, live,
                            startRes, nextRes >>

NextControls == QueryControls \/ SetControl

SpecControls == InitControls /\ [][NextControls]_vars

-----------------------------------------------------------------------------
(* Streaming: start_stream, next and drop on one device *)

\* a device with a format the HAL knows and one it does not, one frame size,
\* and intervals shorter and longer than a second
StreamPlatform ==
    [ formats |-> << "YUYV", "XXXX" >>,
      sizes |-> << [ kind |-> "Discrete", width |-> 640, height |-> 480 ] >>,
      intervals |-> << [ kind |-> "Discrete", numerator |-> 1, denominator |-> 30 ],
                       [ kind |-> "Discrete", numerator |-> 2, denominator |-> 15 ],
                       [ kind |-> "Discrete", numerator |-> 2, denominator |-> 1 ] >> ]

InitStream ==
    /\ plat = StreamPlatform
    /\ platControls = << >>
    /\ ctrlValue = << >>
    /\ streamsRes = NoStreamsRes
    /\ preferredRes = NoPreferredRes
    /\ controlsRes = NoControlsRes
    /\ setRes = NoSetRes
    /\ devFormat = NoFormat
    /\ devParams = NoParams
    /\ mapped = 0
    /\ live = << >>
    /\ startRes = NoStartRes
    /\ nextRes = NoNextRes

Live == DOMAIN live

\* start_stream on a descriptor that query_streams returned
StartStream ==
    \E desc \in Range(query_streams(plat, << "none", 0, 0 >>).streams),
       fail \in StartFailPoints, id \in 1..MaxStreams :
        LET r == start_stream(desc, fail, mapped + RingSlots <= PlatformSlots)
        IN  /\ id \notin Live
            /\ \A j \in 1..MaxStreams : j < id => j \in Live
            /\ startRes' = [ called |-> TRUE, desc |-> desc, fail |-> fail,
                             status |-> r.status ]
            /\ devFormat' = IF r.format.set THEN r.format ELSE devFormat
            /\ devParams' = IF r.params.set THEN r.params ELSE devParams
            /\ live' = IF r.opened
                       THEN [ i \in Live \cup { id } |->
                                IF i = id THEN NewStream ELSE live[i] ]
                       ELSE live
            /\ mapped' = IF r.opened THEN mapped + RingSlots ELSE mapped
            /\ UNCHANGED << plat, platControls, ctrlValue, streamsRes,
                            preferredRes, controlsRes, setRes, nextRes >>

\* the platform completes the capture of a frame into a slot of a ring
FrameArrives ==
    \E id \in Live, slot \in 1..RingSlots, bytesused \in 0..SlotLen :
        /\ ~live[id].ready
        /\ live' = [ live EXCEPT ![id].ready = TRUE, ![id].slot = slot,
                                 ![id].bytesused = bytesused ]
        /\ UNCHANGED << plat, platControls, ctrlValue, streamsRes, preferredRes,
                        controlsRes, setRes, devFormat, devParams, mapped,
                        startRes, nextRes >>

\* what the platform's dequeue returns for a stream: an I/O failure, nothing
\* when no frame has arrived, or the slot that completed
Dequeues(st) ==
    { DequeueErr }
      \cup IF st.ready THEN { DequeueSome(st.slot, st.bytesused) }
           ELSE { DequeueNone }

\* one next() call on a live Stream
NextFrame ==
    \E id \in Live :
        \E deq \in Dequeues(live[id]) :
            LET r == next(deq)
            IN  /\ nextRes' = [ called |-> TRUE, id |-> id, deq |-> deq ] @@ r
                /\ live' = IF r.out = "frame"
                           THEN [ live EXCEPT ![id].ready = FALSE,
                                              ![id].slot = 0,
                                              ![id].bytesused = 0 ]
                           ELSE [ live EXCEPT ![id].missed = TRUE ]
                /\ UNCHANGED << plat, platControls, ctrlValue, streamsRes,
                                preferredRes, controlsRes, setRes, devFormat,
                                devParams, mapped, startRes >>

\* the Stream is dropped
DropStream ==
    \E id \in Live :
        /\ live' = [ i \in Live \ { id } |-> live[i] ]
        /\ mapped' = MappedAfterDrop(mapped)
        /\ UNCHANGED << plat, platControls, ctrlValue, streamsRes, preferredRes,
                        controlsRes, setRes, devFormat, devParams, startRes,
                        nextRes >>

NextStream == StartStream \/ FrameArrives \/ NextFrame \/ DropStream

SpecStream == InitStream /\ [][NextStream]_vars

-----------------------------------------------------------------------------
(* Properties of the enumeration *)

\* the (format, size, interval) positions whose size and interval are discrete
TripleSet(p) ==
    { t \in (1..Len(p.formats)) \X (1..Len(p.sizes)) \X (1..Len(p.intervals)) :
        p.sizes[t[2]].kind = "Discrete" /\ p.intervals[t[3]].kind = "Discrete" }

LexLess(t, u) ==
    \/ t[1] < u[1]
    \/ t[1] = u[1] /\ t[2] < u[2]
    \/ t[1] = u[1] /\ t[2] = u[2] /\ t[3] < u[3]

\* position of triple t in nested enumeration order
Rank(p, t) == Cardinality({ u \in TripleSet(p) : LexLess(u, t) }) + 1

\* the failing platform call is one the enumeration makes
FailReached(p, fail) ==
    \/ fail[1] = "formats"
    \/ fail[1] = "sizes" /\ fail[2] <= Len(p.formats)
    \/ /\ fail[1] = "intervals"
       /\ fail[2] <= Len(p.formats)
       /\ fail[3] <= Len(p.sizes)
       /\ p.sizes[fail[3]].kind = "Discrete"

MaxWidth(streams) ==
    CHOOSE w \in { d.width : d \in Range(streams) } :
        \A d \in Range(streams) : d.width <= w

\* C1: on a list of two or more descriptors preferred_stream with the
\* comparator "pick wider" succeeds and returns a descriptor of maximal width
C1_PickWiderGivesWidest ==
    LET q == query_streams(plat, preferredRes.fail)
    IN  (preferredRes.called /\ q.ok /\ Len(q.streams) >= 2)
            => /\ preferredRes.status = "Ok"
               /\ preferredRes.desc.width = MaxWidth(q.streams)

\* C2: preferred_stream fails with NoStreamsAvailable on an empty list and
\* returns the only descriptor of a singleton list unchanged, without calling
\* the comparator
C2_EmptyAndSingleton ==
    LET q == query_streams(plat, preferredRes.fail)
    IN  (preferredRes.called /\ q.ok)
            => /\ Len(q.streams) = 0 => preferredRes.status = "NoStreamsAvailable"
               /\ Len(q.streams) = 1 =>
                      /\ preferredRes.status = "Ok"
                      /\ preferredRes.desc = q.streams[1]
                      /\ preferredRes.calls = 0

C2_Witness ==
    /\ preferredRes.called
    /\ preferredRes.status = "Ok"
    /\ preferredRes.calls = 0
    /\ Len(query_streams(plat, preferredRes.fail).streams) = 1
    /\ preferredRes.desc.pixfmt = "Unknown"

\* C8: query_streams returns exactly one descriptor per (format, discrete
\* size, discrete interval) triple in nested order and nothing else; skipped
\* entries do not make it fail; a failing platform enumeration makes the
\* call fail with no list
C8_QueryStreamsFlattens ==
    streamsRes.called =>
        IF FailReached(plat, streamsRes.fail)
        THEN ~streamsRes.ok /\ streamsRes.streams = << >>
        ELSE /\ streamsRes.ok
             /\ Len(streamsRes.streams) = Cardinality(TripleSet(plat))
             /\ \A t \in TripleSet(plat) :
                    LET d == streamsRes.streams[Rank(plat, t)]
                        f == plat.intervals[t[3]]
                    IN  /\ d.width = plat.sizes[t[2]].width
                        /\ d.height = plat.sizes[t[2]].height
                        /\ d.pixfmt = PixelFormatFrom(plat.formats[t[1]])
                        /\ d.interval =
                               DurationFromFraction(f.numerator, f.denominator)

C8_Witness ==
    /\ streamsRes.called
    /\ streamsRes.ok
    /\ Len(streamsRes.streams) = 2
    /\ Len(plat.formats) = 2
    /\ plat.formats[1] # plat.formats[2]
    /\ \E j \in 1..Len(plat.sizes) : plat.sizes[j].kind = "Stepwise"
    /\ \E k \in 1..Len(plat.intervals) : plat.intervals[k].kind = "Stepwise"

-----------------------------------------------------------------------------
(* Properties of the controls *)

\* positions of the platform controls that are not DISABLED
EnabledPositions(pcs) == { i \in 1..Len(pcs) : "DISABLED" \notin pcs[i].flags }

PositionRank(pcs, i) == Cardinality({ j \in EnabledPositions(pcs) : j < i }) + 1

\* C3: query_controls lists no DISABLED control and lists every other
\* platform control once, in platform order, with its id and name; a type
\* without mapping appears with representation Unknown
C3_DisabledNeverListed ==
    (controlsRes.called /\ controlsRes.ok) =>
        /\ \A k \in 1..Len(controlsRes.controls) :
               \A i \in 1..Len(platControls) :
                   platControls[i].id = controlsRes.controls[k].id
                       => "DISABLED" \notin platControls[i].flags
        /\ Len(controlsRes.controls) = Cardinality(EnabledPositions(platControls))
        /\ \A i \in EnabledPositions(platControls) :
               LET c == controlsRes.controls[PositionRank(platControls, i)]
               IN  /\ c.id = platControls[i].id
                   /\ c.name = platControls[i].name
                   /\ platControls[i].typ = "CtrlClass" => c.repr.kind = "Unknown"

C3_Witness ==
    /\ controlsRes.called
    /\ controlsRes.ok
    /\ Len(platControls) = 2
    /\ platControls[1].flags = { "DISABLED", "READ_ONLY" }
    /\ platControls[2].typ = "CtrlClass"
    /\ Len(controlsRes.controls) = 1
    /\ controlsRes.controls[1].repr.kind = "Unknown"

\* the variant of a value matches the representation of a control
VariantMatches(variant, kind) ==
    \/ variant = "Integer" /\ kind = "Integer"
    \/ variant = "Boolean" /\ kind = "Boolean"
    \/ variant = "MenuItem" /\ kind = "Menu"
    \/ variant = "String" /\ kind = "String"

\* C4: set_control succeeds when the value's variant matches the control's
\* representation and the control is writable, and fails with
\* UnsupportedControlType, writing nothing, when the variant does not match
C4_SetControlChecksVariant ==
    setRes.called =>
        \A i \in 1..Len(platControls) :
            platControls[i].id = setRes.id =>
                LET kind == Representation(platControls[i]).kind
                    writable == platControls[i].flags = {}
                IN  /\ (VariantMatches(setRes.val.variant, kind) /\ writable
                            /\ setRes.platOk)
                        => setRes.status = "Ok"
                    /\ ~VariantMatches(setRes.val.variant, kind)
                        => (setRes.status = "UnsupportedControlType"
                                /\ ~setRes.wrote)

-----------------------------------------------------------------------------
(* Properties of streaming *)

\* C5: at most one Stream of the device is live at any time
C5_AtMostOneLiveStream == Cardinality(Live) <= 1

C7_EveryDescriptorStarts ==
    (startRes.called /\ startRes.fail = "none") => startRes.status = "Ok"

\* C9: the timing fraction start_stream pushes denotes the interval the
\* platform reported for the descriptor, and its denominator is not zero
C9_PushedIntervalIsDescriptorInterval ==
    (startRes.called /\ startRes.status = "Ok") =>
        \A k \in 1..Len(plat.intervals) :
            LET f == plat.intervals[k]
            IN  (/\ f.kind = "Discrete"
                 /\ DurationFromFraction(f.numerator, f.denominator)
                        = startRes.desc.interval)
                    => /\ devParams.denominator # 0
                       /\ devParams.numerator * f.denominator
                              = devParams.denominator * f.numerator

\* next() on a Stream that has a frame returns that frame
FrameReturned(id) ==
    /\ id \in Live
    /\ live[id].ready
    /\ nextRes' = [ called |-> TRUE,
                    id |-> id,
                    deq |-> DequeueSome(live[id].slot, live[id].bytesused),
                    out |-> "frame",
                    bytes |-> SubSeq(SlotData(live[id].slot), 1,
                                     live[id].bytesused) ]
    /\ live' = [ live EXCEPT ![id].ready = FALSE, ![id].slot = 0,
                             ![id].bytesused = 0 ]
    /\ UNCHANGED << plat, platControls, ctrlValue, streamsRes, preferredRes,
                    controlsRes, setRes, devFormat, devParams, mapped, startRes >>

\* C10: next() returns absent, error or a frame as the platform's dequeue
\* decides, the frame being the first bytesused bytes of the dequeued slot;
\* and whatever absent and error results a Stream has given, its next() still
\* returns a frame once the platform has one
C10_NextOutcomes ==
    /\ nextRes.called =>
           /\ nextRes.deq.kind = "None" => nextRes.out = "absent"
           /\ nextRes.deq.kind = "Err" => nextRes.out = "error"
           /\ nextRes.deq.kind = "Some" =>
                  /\ nextRes.out = "frame"
                  /\ Len(nextRes.bytes) = nextRes.deq.bytesused
                  /\ \A k \in 1..nextRes.deq.bytesused :
                         nextRes.bytes[k] = SlotData(nextRes.deq.slot)[k]
    /\ \A id \in Live : live[id].ready => ENABLED (NextFrame /\ FrameReturned(id))

\* a Stream that gave absent or error before has just returned a frame
C10_Witness ==
    /\ nextRes.called
    /\ nextRes.out = "frame"
    /\ nextRes.deq.bytesused = 1
    /\ nextRes.id \in Live
    /\ live[nextRes.id].missed
    /\ ~live[nextRes.id].ready

====
